---- MODULE Spec2Model ----
(***************************************************************************)
(* Model of rpi_monitor.py: the remote probe executor, the per-category    *)
(* collectors with their text parsing, persistence, threshold warnings and *)
(* the single-shot / continuous scheduler.                                 *)
(*                                                                         *)
(* Text is a sequence of atoms (strings).  The atoms " " and "\n" are      *)
(* whitespace; every other atom is an indivisible run of characters.       *)
(***************************************************************************)
EXTENDS Integers, Sequences, FiniteSets, TLC

\* ------------------------------------------------------------------------
\* Python string operations, on atom sequences
\* ------------------------------------------------------------------------

SP == " "
NL == "\n"

IsSpace(a) == a \in {SP, NL}

RECURSIVE LStripSet(_, _)
LStripSet(s, drop) ==
    IF s # <<>> /\ Head(s) \in drop THEN LStripSet(Tail(s), drop) ELSE s

RECURSIVE RStripSet(_, _)
RStripSet(s, drop) ==
    IF s # <<>> /\ s[Len(s)] \in drop
    THEN RStripSet(SubSeq(s, 1, Len(s) - 1), drop)
    ELSE s

\* str.strip()
Strip(s) == RStripSet(LStripSet(s, {SP, NL}), {SP, NL})

\* str.strip(c) and str.rstrip(c) for a one-character argument c
StripChar(s, c) == RStripSet(LStripSet(s, {c}), {c})
RStripChar(s, c) == RStripSet(s, {c})

\* str.replace(a, "")
Replace(s, a) == SelectSeq(s, LAMBDA x : x # a)

\* str.split(sep): empty pieces are kept, "".split(sep) is [""]
RECURSIVE SplitAcc(_, _, _, _)
SplitAcc(s, sep, cur, acc) ==
    IF s = <<>> THEN Append(acc, cur)
    ELSE IF Head(s) = sep THEN SplitAcc(Tail(s), sep, <<>>, Append(acc, cur))
    ELSE SplitAcc(Tail(s), sep, Append(cur, Head(s)), acc)

Split(s, sep) == SplitAcc(s, sep, <<>>, <<>>)

\* str.split(): runs of whitespace separate, no empty pieces
RECURSIVE SplitWSAcc(_, _, _)
SplitWSAcc(s, cur, acc) ==
    IF s = <<>> THEN (IF cur = <<>> THEN acc ELSE Append(acc, cur))
    ELSE IF IsSpace(Head(s))
         THEN SplitWSAcc(Tail(s), <<>>, IF cur = <<>> THEN acc ELSE Append(acc, cur))
         ELSE SplitWSAcc(Tail(s), Append(cur, Head(s)), acc)

SplitWS(s) == SplitWSAcc(s, <<>>, <<>>)

\* sub in s
Contains(s, sub) ==
    \E i \in 0..(Len(s) - Len(sub)) : SubSeq(s, i + 1, i + Len(sub)) = sub

\* list[:n]
Take(l, n) == SubSeq(l, 1, IF Len(l) < n THEN Len(l) ELSE n)

\* list[1:]
Rest(l) == IF l = <<>> THEN <<>> ELSE Tail(l)

\* ------------------------------------------------------------------------
\* int() and float(): the numerals of the modelled outputs and their values.
\* A float is kept exactly, as a fraction num/den with den > 0.
\* ------------------------------------------------------------------------

IntNumerals ==
    ( "0" :> 0 @@ "-2" :> (-2) @@ "120" :> 120 @@ "400" :> 400 @@ "512" :> 512
      @@ "950" :> 950 @@ "1000" :> 1000 @@ "1024" :> 1024
      @@ "600000000" :> 600000000 )

Frac(n, d) == [num |-> n, den |-> d]

DecimalNumerals ==
    ( "0.3" :> Frac(3, 10) @@ "0.4" :> Frac(2, 5) @@ "0.5" :> Frac(1, 2)
      @@ "12.5" :> Frac(25, 2) @@ "65.0" :> Frac(65, 1) @@ "70.0" :> Frac(70, 1)
      @@ "70.1" :> Frac(701, 10) @@ "75.0" :> Frac(75, 1) )

Returned(v) == [exc |-> "none", val |-> v]
Raised(e) == [exc |-> e, val |-> <<>>]

\* int(s)
ParseInt(s) ==
    LET t == Strip(s) IN
    IF Len(t) = 1 /\ t[1] \in DOMAIN IntNumerals
    THEN Returned(IntNumerals[t[1]])
    ELSE Raised("ValueError")

\* float(s)
ParseFloat(s) ==
    LET t == Strip(s) IN
    IF Len(t) = 1 /\ t[1] \in DOMAIN IntNumerals
    THEN Returned(Frac(IntNumerals[t[1]], 1))
    ELSE IF Len(t) = 1 /\ t[1] \in DOMAIN DecimalNumerals
    THEN Returned(DecimalNumerals[t[1]])
    ELSE Raised("ValueError")

\* list[i] with Python's 0-based index i
Index(l, i) == IF i < Len(l) THEN Returned(l[i + 1]) ELSE Raised("IndexError")

\* (a / b) * 100 on integers a, b (true division)
PercentOf(a, b) ==
    IF b = 0 THEN Raised("ZeroDivisionError")
    ELSE IF b > 0 THEN Returned(Frac(a * 100, b))
    ELSE Returned(Frac((-a) * 100, -b))

\* x > k for a float x and an integer literal k
FloatGT(x, k) == x.num > k * x.den

\* ------------------------------------------------------------------------
\* The probes, in the order collect_all_metrics runs them
\* ------------------------------------------------------------------------

ProbeOrder ==
    << "uptime", "uname", "os_release",
       "cpu_usage", "loadavg", "temp", "freq",
       "free", "swapon",
       "df", "iostat",
       "ip_addr", "ping", "ss",
       "ps_cpu", "ps_mem", "ps_count", "failed_services",
       "dmesg", "journalctl" >>

Probes == {ProbeOrder[i] : i \in 1..Len(ProbeOrder)}

Category(p) ==
    CASE p \in {"uptime", "uname", "os_release"} -> "system_info"
      [] p \in {"cpu_usage", "loadavg", "temp", "freq"} -> "cpu_metrics"
      [] p \in {"free", "swapon"} -> "memory_metrics"
      [] p \in {"df", "iostat"} -> "disk_metrics"
      [] p \in {"ip_addr", "ping", "ss"} -> "network_metrics"
      [] p \in {"ps_cpu", "ps_mem", "ps_count", "failed_services"} -> "process_metrics"
      [] OTHER -> "log_errors"

Categories == {Category(p) : p \in Probes}

\* The snapshot fields each probe's code writes
FieldsOf(p) ==
    CASE p = "uptime" -> {"uptime"}
      [] p = "uname" -> {"kernel_version"}
      [] p = "os_release" -> {"os_version"}
      [] p = "cpu_usage" -> {"cpu_usage_percent"}
      [] p = "loadavg" -> {"load_average"}
      [] p = "temp" -> {"cpu_temperature_c"}
      [] p = "freq" -> {"cpu_frequency_hz"}
      [] p = "free" -> {"memory"}
      [] p = "swapon" -> {"swap"}
      [] p = "df" -> {"disk_usage"}
      [] p = "iostat" -> {"disk_io"}
      [] p = "ip_addr" -> {"network_interfaces"}
      [] p = "ping" -> {"internet_connectivity"}
      [] p = "ss" -> {"active_connections"}
      [] p = "ps_cpu" -> {"top_cpu_processes"}
      [] p = "ps_mem" -> {"top_memory_processes"}
      [] p = "ps_count" -> {"total_processes"}
      [] p = "failed_services" -> {"failed_services"}
      [] p = "dmesg" -> {"recent_kernel_errors"}
      [] OTHER -> {"recent_syslog_errors"}

\* ------------------------------------------------------------------------
\* Probe Executor
\* ------------------------------------------------------------------------

\* What subprocess.run does: completes with an exit status, exceeds the
\* timeout, or raises another exception (ssh cannot be started, ...)
Statuses == {"ok", "nonzero", "timeout", "channel"}

Completed(text) == [status |-> "ok", stdout |-> text]
Failing(st) == [status |-> st, stdout |-> <<>>]

None == [none |-> TRUE, text |-> <<>>]
Str(t) == [none |-> FALSE, text |-> t]

\* Python truthiness of an Optional[str]
Truthy(r) == ~r.none /\ r.text # <<>>

LogEntry(level, msg, about) == [level |-> level, msg |-> msg, about |-> about]

RunRemoteCommandBadTimeout(p, o) ==
    CASE o.status = "ok" -> [ret |-> Str(Strip(o.stdout)), exc |-> "none", log |-> <<>>]
      [] o.status = "nonzero" ->
            [ret |-> None, exc |-> "none",
             log |-> <<LogEntry("ERROR", "Command failed", p)>>]
      [] o.status = "timeout" -> [ret |-> None, exc |-> "TimeoutExpired", log |-> <<>>]
      [] OTHER ->
            [ret |-> None, exc |-> "none",
             log |-> <<LogEntry("ERROR", "SSH connection failed", "")>>]

\* _run_remote_command: the stripped stdout, or None with one error entry
RunRemoteCommand(p, o) ==
    CASE o.status = "ok" -> [ret |-> Str(Strip(o.stdout)), exc |-> "none", log |-> <<>>]
      [] o.status = "nonzero" ->
            [ret |-> None, exc |-> "none",
             log |-> <<LogEntry("ERROR", "Command failed", p)>>]
      [] o.status = "timeout" ->
            [ret |-> None, exc |-> "none",
             log |-> <<LogEntry("ERROR", "Command timed out", p)>>]
      [] OTHER ->
            [ret |-> None, exc |-> "none",
             log |-> <<LogEntry("ERROR", "SSH connection failed", "")>>]

\* ------------------------------------------------------------------------
\* Parsers: each yields the exception it lets escape ("none" if none) and
\* the fields it adds to its category
\* ------------------------------------------------------------------------

Adds(d) == [exc |-> "none", upd |-> d]
Throws(e) == [exc |-> e, upd |-> <<>>]
Nothing == Adds(<<>>)

\* the first exception of a sequence of evaluations, in order
RECURSIVE FirstExc(_)
FirstExc(rs) ==
    IF rs = <<>> THEN "none"
    ELSE IF Head(rs).exc # "none" THEN Head(rs).exc
    ELSE FirstExc(Tail(rs))

\* int(l[i]) and float(l[i])
IntAt(l, i) == LET e == Index(l, i) IN IF e.exc # "none" THEN e ELSE ParseInt(e.val)
FloatAt(l, i) == LET e == Index(l, i) IN IF e.exc # "none" THEN e ELSE ParseFloat(e.val)

\* if out: d[field] = out
KeepText(field, r) == IF Truthy(r) THEN Adds(field :> r.text) ELSE Nothing

QUOTE == "\""

\* lines 86-88
ParseOsVersion(r) ==
    IF ~Truthy(r) THEN Nothing
    ELSE LET e == Index(Split(r.text, "="), 1) IN
         IF e.exc # "none" THEN Throws(e.exc)
         ELSE Adds("os_version" :> StripChar(e.val, QUOTE))

\* lines 97-102
ParseCpuUsage(r) ==
    IF ~Truthy(r) THEN Nothing
    ELSE LET v == ParseFloat(r.text) IN
         IF v.exc = "ValueError" THEN Nothing
         ELSE Adds("cpu_usage_percent" :> v.val)

\* lines 105-112
ParseLoadAvg(r) ==
    IF ~Truthy(r) THEN Nothing
    ELSE LET loads == Take(SplitWS(r.text), 3)
             a == FloatAt(loads, 0)
             b == FloatAt(loads, 1)
             c == FloatAt(loads, 2)
             e == FirstExc(<<a, b, c>>)
         IN  IF e # "none" THEN Throws(e)
             ELSE Adds("load_average" :>
                         ("1min" :> a.val @@ "5min" :> b.val @@ "15min" :> c.val))

\* lines 115-121
ParseTemperature(r) ==
    IF ~Truthy(r) THEN Nothing
    ELSE LET v == ParseFloat(Replace(Replace(r.text, "temp="), "'C")) IN
         IF v.exc = "ValueError" THEN Nothing
         ELSE Adds("cpu_temperature_c" :> v.val)

\* lines 124-130
ParseFrequency(r) ==
    IF ~Truthy(r) THEN Nothing
    ELSE LET v == IntAt(Split(r.text, "="), 1) IN
         IF v.exc \in {"ValueError", "IndexError"} THEN Nothing
         ELSE Adds("cpu_frequency_hz" :> v.val)

\* lines 139-150
ParseMemory(r) ==
    IF ~Truthy(r) THEN Nothing
    ELSE LET lines == Split(r.text, NL) IN
         IF Len(lines) < 2 THEN Nothing
         ELSE LET mem_line == SplitWS(lines[2])
                  total == IntAt(mem_line, 1)
                  used == IntAt(mem_line, 2)
                  free == IntAt(mem_line, 3)
                  avail == IF Len(mem_line) > 6 THEN IntAt(mem_line, 6)
                           ELSE IntAt(mem_line, 3)
                  e == FirstExc(<<total, used, free, avail>>)
              IN  IF e # "none" THEN Throws(e)
                  ELSE LET pct == PercentOf(used.val, total.val) IN
                       IF pct.exc # "none" THEN Throws(pct.exc)
                       ELSE Adds("memory" :>
                                   [total_mb |-> total.val, used_mb |-> used.val,
                                    free_mb |-> free.val, available_mb |-> avail.val,
                                    usage_percent |-> pct.val])

\* lines 153-163
ParseSwap(r) ==
    IF ~Truthy(r) THEN Nothing
    ELSE LET swap_lines == Split(Strip(r.text), NL) IN
         IF swap_lines = <<>> \/ swap_lines[1] = <<>> THEN Nothing
         ELSE LET swap_parts == SplitWS(swap_lines[1]) IN
              IF Len(swap_parts) < 4 THEN Nothing
              ELSE LET f == Index(swap_parts, 4)
                       v == IF f.exc # "none" THEN f
                            ELSE ParseFloat(RStripChar(f.val, "%"))
                   IN  IF v.exc # "none" THEN Throws(v.exc)
                       ELSE Adds("swap" :>
                                   [size |-> swap_parts[2], used |-> swap_parts[3],
                                    usage_percent |-> v.val])

StartsWithDev(field) == field # <<>> /\ field[1] = "/dev/"

DiskEntry(parts) ==
    [device |-> parts[1], size |-> parts[2], used |-> parts[3],
     available |-> parts[4], usage_percent |-> RStripChar(parts[5], "%"),
     mount_point |-> parts[6]]

RECURSIVE Disks(_)
Disks(lines) ==
    IF lines = <<>> THEN <<>>
    ELSE LET parts == SplitWS(Head(lines)) IN
         IF Len(parts) >= 6 /\ StartsWithDev(parts[1])
         THEN <<DiskEntry(parts)>> \o Disks(Tail(lines))
         ELSE Disks(Tail(lines))

\* lines 172-187
ParseDiskUsage(r) ==
    IF ~Truthy(r) THEN Nothing
    ELSE Adds("disk_usage" :> Disks(Rest(Split(r.text, NL))))

ParsePingOmitting(r) ==
    IF Truthy(r)
    THEN Adds("internet_connectivity" :>
                (Contains(r.text, <<"ping", SP, "successful">>)
                   \/ Contains(r.text, <<"3", SP, "received">>)))
    ELSE Nothing

\* lines 206-210
ParsePing(r) ==
    IF Truthy(r)
    THEN Adds("internet_connectivity" :>
                (Contains(r.text, <<"ping", SP, "successful">>)
                   \/ Contains(r.text, <<"3", SP, "received">>)))
    ELSE Adds("internet_connectivity" :> FALSE)

\* lines 213-215
ParseConnections(r) ==
    IF ~Truthy(r) THEN Nothing
    ELSE Adds("active_connections" :> Len(Split(r.text, NL)) - 1)

\* lines 234-239
ParseProcessCount(r) ==
    IF ~Truthy(r) THEN Nothing
    ELSE LET v == ParseInt(r.text) IN
         IF v.exc = "ValueError" THEN Nothing
         ELSE Adds("total_processes" :> v.val - 1)

\* lines 242-244
ParseFailedServices(r) ==
    IF ~Truthy(r) THEN Nothing
    ELSE Adds("failed_services" :>
                (IF Strip(r.text) # <<>> THEN Split(r.text, NL) ELSE <<>>))

\* lines 253-255 and 258-260
ParseLogLines(field, r) ==
    IF ~Truthy(r) THEN Nothing
    ELSE Adds(field :> Split(r.text, NL))

\* the code that follows each probe's command in its get_* method
Parse(p, r) ==
    CASE p = "uptime" -> KeepText("uptime", r)
      [] p = "uname" -> KeepText("kernel_version", r)
      [] p = "os_release" -> ParseOsVersion(r)
      [] p = "cpu_usage" -> ParseCpuUsage(r)
      [] p = "loadavg" -> ParseLoadAvg(r)
      [] p = "temp" -> ParseTemperature(r)
      [] p = "freq" -> ParseFrequency(r)
      [] p = "free" -> ParseMemory(r)
      [] p = "swapon" -> ParseSwap(r)
      [] p = "df" -> ParseDiskUsage(r)
      [] p = "iostat" -> KeepText("disk_io", r)
      [] p = "ip_addr" -> KeepText("network_interfaces", r)
      [] p = "ping" -> ParsePing(r)
      [] p = "ss" -> ParseConnections(r)
      [] p = "ps_cpu" -> KeepText("top_cpu_processes", r)
      [] p = "ps_mem" -> KeepText("top_memory_processes", r)
      [] p = "ps_count" -> ParseProcessCount(r)
      [] p = "failed_services" -> ParseFailedServices(r)
      [] p = "dmesg" -> ParseLogLines("recent_kernel_errors", r)
      [] OTHER -> ParseLogLines("recent_syslog_errors", r)

\* ------------------------------------------------------------------------
\* The remote host: what each command prints.  A cycle runs against a host
\* in one of three conditions, and up to MaxDev of its probes depart from
\* what that condition gives.
\* ------------------------------------------------------------------------

RECURSIVE Join(_, _)
Join(texts, sep) ==
    IF texts = <<>> THEN <<>>
    ELSE IF Len(texts) = 1 THEN texts[1]
    ELSE texts[1] \o <<sep>> \o Join(Tail(texts), sep)

Words(atoms) == Join([i \in 1..Len(atoms) |-> <<atoms[i]>>], SP)
Lines(texts) == Join(texts, NL)

MemOutput(cols) ==
    Lines(<<Words(<<"total", "used", "free", "shared", "buff/cache", "available">>),
            Words(<<"Mem:">> \o cols),
            Words(<<"Swap:", "0", "0", "0">>)>>) \o <<NL>>

DfOutput ==
    Lines(<<Words(<<"Filesystem", "Size", "Used", "Avail", "Use%", "Mounted">>),
            Join(<< <<"/dev/", "root">>, <<"29G">>, <<"5G">>, <<"23G">>,
                    <<"18", "%">>, <<"/">> >>, SP),
            Words(<<"tmpfs", "1.9G", "0", "1.9G", "0%", "/dev/shm">>),
            Join(<< <<"/dev/", "sda1">>, <<"1T">> >>, SP)>>)

\* typical output of each command on a host in good shape
HealthyOutput(p) ==
    CASE p = "uptime" -> Words(<<"up", "2", "days">>) \o <<NL>>
      [] p = "uname" -> <<"6.1.21-v8+", NL>>
      [] p = "os_release" -> <<"PRETTY_NAME", "=", QUOTE, "Raspbian", QUOTE, NL>>
      [] p = "cpu_usage" -> <<"12.5", NL>>
      [] p = "loadavg" -> Words(<<"0.5", "0.4", "0.3", "1/120", "4242">>) \o <<NL>>
      [] p = "temp" -> <<"temp=", "65.0", "'C", NL>>
      [] p = "freq" -> <<"frequency(48)", "=", "600000000", NL>>
      [] p = "free" -> MemOutput(<<"1024", "512", "512", "0", "0", "400">>)
      [] p = "swapon" -> Words(<<"/var/swap", "file", "100M", "0B", "-2">>) \o <<NL>>
      [] p = "df" -> DfOutput
      [] p = "iostat" -> Words(<<"mmcblk0", "1.0", "2.0">>)
      [] p = "ip_addr" -> Words(<<"1:", "lo:", "inet", "127.0.0.1">>)
      [] p = "ping" -> Words(<<"3", "packets", "transmitted,", "3", "received">>)
      [] p = "ss" -> Lines(<<Words(<<"Netid", "State">>), Words(<<"tcp", "LISTEN">>)>>)
      [] p = "ps_cpu" -> Lines(<<Words(<<"USER", "PID">>), Words(<<"root", "1">>)>>)
      [] p = "ps_mem" -> Lines(<<Words(<<"USER", "PID">>), Words(<<"pi", "7">>)>>)
      [] p = "ps_count" -> <<"120", NL>>
      [] OTHER -> <<>>   \* no failed unit, no error line in either log

\* the same host hot, short of memory and with errors to report
StressedOutput(p) ==
    CASE p = "temp" -> <<"temp=", "75.0", "'C", NL>>
      [] p = "free" -> MemOutput(<<"1000", "950", "0", "0", "0", "0">>)
      [] p = "failed_services" ->
            Lines(<<Words(<<"foo.service", "loaded", "failed", "failed", "Foo">>),
                    Words(<<"bar.service", "loaded", "failed", "failed", "Bar">>)>>)
      [] p = "dmesg" -> Words(<<"mmc0:", "error", "-110">>)
      [] p = "journalctl" -> Words(<<"sshd:", "error:", "refused">>)
      [] OTHER -> HealthyOutput(p)

Hosts == {"healthy", "stressed", "unreachable"}

Baseline(host, p) ==
    CASE host = "healthy" -> Completed(HealthyOutput(p))
      [] host = "stressed" -> Completed(StressedOutput(p))
      [] OTHER -> Failing("channel")

\* other outputs a command can complete with
OddOutputs(p) ==
    CASE p = "os_release" -> {<<"PRETTY_NAME", NL>>}
      [] p = "cpu_usage" -> {<<"us,", NL>>}
      [] p = "loadavg" -> {Words(<<"0.5", "0.4">>), Words(<<"0.5", "n/a", "0.3">>)}
      [] p = "temp" -> {<<"temp=", "70.0", "'C">>, <<"temp=", "70.1", "'C">>,
                        <<"VCHI", SP, "initialization", SP, "failed">>}
      [] p = "freq" -> {<<"frequency(48)">>, <<"frequency(48)", "=", "n/a">>}
      [] p = "free" -> {MemOutput(<<"0", "0", "0", "0", "0", "0">>),
                        MemOutput(<<"1024", "512">>),
                        MemOutput(<<"1024", "512", "512">>),
                        MemOutput(<<"1024", "n/a", "512", "0", "0", "400">>),
                        Words(<<"total", "used", "free">>)}
      [] p = "swapon" -> {Words(<<"/var/swap", "file", "100M", "0B">>),
                          Words(<<"/var/swap", "file", "100M">>),
                          Join(<< <<"/var/swap">>, <<"file">>, <<"100M">>, <<"0B">>,
                                  <<"0", "%">> >>, SP)}
      [] p = "ping" -> {Words(<<"3", "packets", "transmitted,", "0", "received">>)}
      [] p = "ps_count" -> {<<"wc:", SP, "error">>}
      [] p = "failed_services" -> {StressedOutput(p)}
      [] p = "dmesg" -> {StressedOutput(p)}
      [] p = "journalctl" -> {StressedOutput(p)}
      [] OTHER -> {}

\* everything the channel can hand back for a command
Outcomes(p) ==
    {Failing(st) : st \in Statuses \ {"ok"}}
      \cup {Completed(<<>>)}
      \cup {Completed(t) : t \in OddOutputs(p)}
      \cup {Completed(HealthyOutput(p))}

\* ------------------------------------------------------------------------
\* State
\* ------------------------------------------------------------------------

VARIABLES
    once,       \* args.once
    interval,   \* args.interval
    pc,         \* where the process is
    next,       \* index in ProbeOrder of the probe to run next
    host,       \* condition of the remote host during this cycle
    devs,       \* probes of this cycle that departed from the host's baseline
    chan,       \* what the channel handed back for each probe run in this cycle
    metrics,    \* the snapshot under construction / assembled
    log,        \* entries logged since the current cycle began
    saved,      \* the artifact written for this cycle
    result,     \* what monitor_once returned in this cycle
    exc         \* the exception in flight, or the one that ended the process

vars == <<once, interval, pc, next, host, devs, chan, metrics, log, saved, result, exc>>

MaxDev == 1

DefaultInterval == 300

\* --interval takes any int
Intervals == {-1, DefaultInterval}

Hostname == "rpi"
Timestamp == "ts"

NoFile == [state |-> "none", doc |-> <<>>]

NoResult == <<>>

Init ==
    /\ once \in BOOLEAN
    /\ interval \in Intervals
    /\ once => interval = DefaultInterval   \* monitor_once never reads it
    /\ pc = "main"
    /\ next = 1
    /\ host = "healthy"
    /\ devs = 0
    /\ chan = <<>>
    /\ metrics = <<>>
    /\ log = <<>>
    /\ saved = NoFile
    /\ result = NoResult
    /\ exc = "none"

\* ------------------------------------------------------------------------
\* Scheduler and collector steps
\* ------------------------------------------------------------------------

\* main, lines 356-359; monitor_continuous logs its start (line 324)
Main ==
    /\ pc = "main"
    /\ pc' = "begin"
    /\ log' = IF once THEN log
              ELSE Append(log, LogEntry("INFO", "Starting continuous monitoring", ""))
    /\ UNCHANGED <<once, interval, next, host, devs, chan, metrics, saved, result, exc>>

\* monitor_once is entered; collect_all_metrics, lines 266-272
BeginCycle ==
    /\ pc = "begin"
    /\ host' \in Hosts
    /\ devs' = 0
    /\ chan' = <<>>
    /\ next' = 1
    /\ metrics' = ("timestamp" :> Timestamp @@ "hostname" :> Hostname)
    /\ log' = <<LogEntry("INFO", "Starting health check", "")>>
    /\ saved' = NoFile
    /\ result' = NoResult
    /\ pc' = "probe"
    /\ UNCHANGED <<once, interval, exc>>

\* d[key] merged with upd, d[key] being {} when the key is new
Merge(d, key, upd) ==
    LET old == IF key \in DOMAIN d THEN d[key] ELSE <<>>
    IN  (key :> (upd @@ old)) @@ d

\* one probe: its command through the executor, then its parsing code
ProbeResult(p, o) ==
    LET run == RunRemoteCommand(p, o)
        got == IF run.exc = "none" THEN Parse(p, run.ret) ELSE Throws(run.exc)
    IN  [log |-> run.log, exc |-> got.exc, upd |-> got.upd]

\* what the channel may hand back for probe p of this cycle
PossibleOutcomes(h, d, p) ==
    IF d < MaxDev THEN Outcomes(p) \cup {Baseline(h, p)} ELSE {Baseline(h, p)}

\* the next probe of the cycle; an exception it lets escape ends collection
RunProbe ==
    /\ pc = "probe"
    /\ \E o \in PossibleOutcomes(host, devs, ProbeOrder[next]) :
          LET p == ProbeOrder[next]
              r == ProbeResult(p, o)
          IN  /\ devs' = IF o # Baseline(host, p) THEN devs + 1 ELSE devs
              /\ chan' = (p :> o) @@ chan
              /\ log' = log \o r.log
              /\ metrics' = Merge(metrics, Category(p), r.upd)
              /\ exc' = r.exc
              /\ pc' = IF r.exc # "none" THEN "once_except"
                       ELSE IF next = Len(ProbeOrder) THEN "save" ELSE "probe"
              /\ next' = IF r.exc = "none" /\ next < Len(ProbeOrder) THEN next + 1 ELSE next
    /\ UNCHANGED <<once, interval, host, saved, result>>

WriteOutcomes == {"ok", "open_fails", "dump_fails"}

SaveMetricsRaising(doc, w) ==
    IF w = "ok"
    THEN [file |-> [state |-> "written", doc |-> doc],
          log |-> <<LogEntry("INFO", "Metrics saved", "")>>, exc |-> "none"]
    ELSE [file |-> IF w = "open_fails" THEN NoFile
                   ELSE [state |-> "truncated", doc |-> <<>>],
          log |-> <<>>, exc |-> "OSError"]

\* save_metrics, lines 284-294: the file it leaves and what it logs
SaveMetricsOf(doc, w) ==
    IF w = "ok"
    THEN [file |-> [state |-> "written", doc |-> doc],
          log |-> <<LogEntry("INFO", "Metrics saved", "")>>, exc |-> "none"]
    ELSE [file |-> IF w = "open_fails" THEN NoFile
                   ELSE [state |-> "truncated", doc |-> <<>>],
          log |-> <<LogEntry("ERROR", "Failed to save metrics", "")>>, exc |-> "none"]

\* line 300
SaveMetrics ==
    /\ pc = "save"
    /\ \E w \in WriteOutcomes :
          LET s == SaveMetricsOf(metrics, w) IN
          /\ saved' = s.file
          /\ log' = log \o s.log
          /\ exc' = s.exc
          /\ pc' = IF s.exc = "none" THEN "thresholds" ELSE "once_except"
    /\ UNCHANGED <<once, interval, next, host, devs, chan, metrics, result>>

TempLimit == 70
MemLimit == 90

HighTemperatureAtLeast(m) ==
    LET cpu == IF "cpu_metrics" \in DOMAIN m THEN m["cpu_metrics"] ELSE <<>> IN
    /\ "cpu_temperature_c" \in DOMAIN cpu
    /\ cpu["cpu_temperature_c"].num >= TempLimit * cpu["cpu_temperature_c"].den

\* lines 303, 306-309
HighTemperature(m) ==
    LET cpu == IF "cpu_metrics" \in DOMAIN m THEN m["cpu_metrics"] ELSE <<>> IN
    /\ "cpu_temperature_c" \in DOMAIN cpu
    /\ FloatGT(cpu["cpu_temperature_c"], TempLimit)

\* lines 304, 311-314
HighMemory(m) ==
    LET mem == IF "memory_metrics" \in DOMAIN m THEN m["memory_metrics"] ELSE <<>> IN
    /\ "memory" \in DOMAIN mem
    /\ FloatGT(IF "usage_percent" \in DOMAIN mem["memory"]
               THEN mem["memory"]["usage_percent"] ELSE Frac(0, 1), MemLimit)

ThresholdWarnings(m) ==
    (IF HighTemperature(m) THEN <<LogEntry("WARNING", "High CPU temperature", "")>> ELSE <<>>)
    \o (IF HighMemory(m) THEN <<LogEntry("WARNING", "High memory usage", "")>> ELSE <<>>)

\* lines 302-316
CheckThresholds ==
    /\ pc = "thresholds"
    /\ log' = log \o ThresholdWarnings(metrics)
    /\ result' = <<TRUE>>
    /\ pc' = "once_done"
    /\ UNCHANGED <<once, interval, next, host, devs, chan, metrics, saved, exc>>

OnceExceptNarrow ==
    /\ pc = "once_except"
    /\ IF exc = "ValueError"
       THEN /\ log' = Append(log, LogEntry("ERROR", "Monitoring cycle failed", exc))
            /\ exc' = "none"
            /\ result' = <<FALSE>>
            /\ pc' = "once_done"
       ELSE /\ pc' = (IF once THEN "crashed" ELSE "exc_handler")
            /\ UNCHANGED <<log, exc, result>>
    /\ UNCHANGED <<once, interval, next, host, devs, chan, metrics, saved>>

\* lines 318-320
OnceExcept ==
    /\ pc = "once_except"
    /\ log' = Append(log, LogEntry("ERROR", "Monitoring cycle failed", exc))
    /\ exc' = "none"
    /\ result' = <<FALSE>>
    /\ pc' = "once_done"
    /\ UNCHANGED <<once, interval, next, host, devs, chan, metrics, saved>>

\* line 357: main drops the result and the process ends
ReturnToMain ==
    /\ once
    /\ pc = "once_done"
    /\ pc' = "exited"
    /\ UNCHANGED <<once, interval, next, host, devs, chan, metrics, log, saved, result, exc>>

RetryEntriesInverted(ok) ==
    IF ~ok THEN <<>>
    ELSE <<LogEntry("ERROR", "Monitoring cycle failed, will retry next interval", "")>>

RetryEntries(ok) ==
    IF ok THEN <<>>
    ELSE <<LogEntry("ERROR", "Monitoring cycle failed, will retry next interval", "")>>

\* lines 328-330
AfterOnce ==
    /\ ~once
    /\ pc = "once_done"
    /\ log' = log \o RetryEntries(result = <<TRUE>>)
    /\ pc' = "sleep"
    /\ UNCHANGED <<once, interval, next, host, devs, chan, metrics, saved, result, exc>>

\* time.sleep(secs): the exception it raises
SleepOf(secs) == IF secs < 0 THEN "ValueError" ELSE "none"

\* line 332
Sleep ==
    /\ pc = "sleep"
    /\ exc' = SleepOf(interval)
    /\ pc' = IF SleepOf(interval) = "none" THEN "begin" ELSE "exc_handler"
    /\ UNCHANGED <<once, interval, next, host, devs, chan, metrics, log, saved, result>>

\* lines 337-338
ExcHandler ==
    /\ pc = "exc_handler"
    /\ log' = Append(log, LogEntry("ERROR", "Unexpected error", exc))
    /\ exc' = "none"
    /\ pc' = "exc_sleep"
    /\ UNCHANGED <<once, interval, next, host, devs, chan, metrics, saved, result>>

\* line 339: a sleep inside the handler, which nothing guards
ExcSleep ==
    /\ pc = "exc_sleep"
    /\ exc' = SleepOf(interval)
    /\ pc' = IF SleepOf(interval) = "none" THEN "begin" ELSE "crashed"
    /\ UNCHANGED <<once, interval, next, host, devs, chan, metrics, log, saved, result>>

\* positions inside the try block of monitor_continuous (lines 327-332)
TryBody == {"begin", "probe", "save", "thresholds", "once_except", "once_done", "sleep"}

Running == TryBody \cup {"main", "exc_handler", "exc_sleep", "ki_handler"}

InterruptTargetUncaught(at, single) == "crashed"

\* where a KeyboardInterrupt raised at position `at` takes control: neither
\* `except Exception` (lines 67, 293, 318, 337) catches it, line 334 does
InterruptTarget(at, single) ==
    IF ~single /\ at \in TryBody THEN "ki_handler" ELSE "crashed"

\* SIGINT arrives
Interrupt ==
    /\ pc \in Running
    /\ pc' = InterruptTarget(pc, once)
    /\ exc' = "KeyboardInterrupt"
    \* the frames of monitor_once unwind: its locals are gone
    /\ next' = 1 /\ host' = "healthy" /\ devs' = 0 /\ chan' = <<>> /\ metrics' = <<>>
    /\ UNCHANGED <<once, interval, log, saved, result>>

\* lines 334-336
KiHandler ==
    /\ pc = "ki_handler"
    /\ log' = Append(log, LogEntry("INFO", "Monitoring stopped by user", ""))
    /\ exc' = "none"
    /\ pc' = "exited"
    /\ UNCHANGED <<once, interval, next, host, devs, chan, metrics, saved, result>>

Step ==
    \/ Main
    \/ BeginCycle
    \/ RunProbe
    \/ SaveMetrics
    \/ CheckThresholds
    \/ OnceExcept
    \/ ReturnToMain
    \/ AfterOnce
    \/ Sleep
    \/ ExcHandler
    \/ ExcSleep
    \/ KiHandler

Next == Step \/ Interrupt

Spec == Init /\ [][Next]_vars

\* ------------------------------------------------------------------------
\* Vocabulary of the properties
\* ------------------------------------------------------------------------

Count(msg) == Cardinality({i \in DOMAIN log : log[i].msg = msg})

Ran(p) == p \in DOMAIN chan
CommandFailed(p) == Ran(p) /\ chan[p].status # "ok"
FailedProbes == {p \in Probes : CommandFailed(p)}

CategoryOf(m, c) == IF c \in DOMAIN m THEN m[c] ELSE <<>>
HasField(m, p) == FieldsOf(p) \subseteq DOMAIN CategoryOf(m, Category(p))

ExecutorErrors ==
    Count("Command failed") + Count("Command timed out") + Count("SSH connection failed")

FailedCycleEntries ==
    Count("Monitoring cycle failed")
      + Count("Monitoring cycle failed, will retry next interval")

AfterCollection == {"save", "thresholds", "once_done", "sleep", "exc_handler", "exc_sleep"}
AfterSave == AfterCollection \ {"save"}

ReturnedTrue == result = <<TRUE>>
ReturnedFalse == result = <<FALSE>>
ReturnedBoolean == Len(result) = 1 /\ result[1] \in BOOLEAN

\* ------------------------------------------------------------------------
\* C1
\* ------------------------------------------------------------------------

\* C1 as stated: every probe whose command failed has its field omitted from
\* the snapshot, and no exception of it reaches monitor_once.
C1_Original ==
    \A p \in FailedProbes :
        /\ ~HasField(metrics, p)
        /\ pc = "once_except" => ProbeOrder[next] # p

\* C1 as amended: a failed command raises nothing, logs one error and leaves
\* its field out of the snapshot, except the connectivity probe, whose field
\* is recorded as False; the probes after it still run.
C1_FailedCommandDegradesOnlyItself ==
    /\ \A p \in FailedProbes :
          /\ p # "ping" => ~HasField(metrics, p)
          /\ p = "ping" =>
                /\ HasField(metrics, p)
                /\ metrics["network_metrics"]["internet_connectivity"] = FALSE
          /\ pc = "once_except" => ProbeOrder[next] # p
    /\ pc \in {"probe", "save"} => ExecutorErrors = Cardinality(FailedProbes)
    /\ pc = "probe" => DOMAIN chan = {ProbeOrder[i] : i \in 1..(next - 1)}
    /\ pc = "save" => DOMAIN chan = Probes

C1_Witness ==
    /\ pc = "save"
    /\ chan["uptime"].status = "timeout"
    /\ chan["ping"].status = "channel"
    /\ chan["journalctl"].status = "channel"

\* ------------------------------------------------------------------------
\* C2
\* ------------------------------------------------------------------------

AllFailed == DOMAIN chan = Probes /\ FailedProbes = Probes

\* C2 as stated (read generously: the categories may be there, but hold
\* nothing): with every probe failed the persisted document holds nothing but
\* timestamp and target.
C2_Original ==
    (AllFailed /\ saved.state = "written") =>
        \A k \in DOMAIN saved.doc \ {"timestamp", "hostname"} : saved.doc[k] = <<>>

EmptySnapshot ==
    [k \in {"timestamp", "hostname"} \cup Categories |->
        CASE k = "timestamp" -> Timestamp
          [] k = "hostname" -> Hostname
          [] k = "network_metrics" -> ("internet_connectivity" :> FALSE)
          [] OTHER -> <<>>]

\* C2 as amended: with every probe failed the cycle raises nothing and hands
\* save_metrics the timestamp, the target and the seven categories, all empty
\* but network_metrics, which holds internet_connectivity = False; that is the
\* document written unless the write itself fails.
C2_AllFailedDocument ==
    AllFailed =>
        /\ pc \notin {"probe", "once_except"}
        /\ metrics = EmptySnapshot
        /\ saved.state = "written" => saved.doc = EmptySnapshot
        /\ pc \in AfterSave =>
              (saved.state = "written" \/ Count("Failed to save metrics") = 1)
        /\ pc \in {"once_done", "sleep", "exited"} => ReturnedTrue

C2_Witness == AllFailed /\ saved.state = "written" /\ pc = "once_done"

\* ------------------------------------------------------------------------
\* C3
\* ------------------------------------------------------------------------

\* C3: in continuous mode, whatever the interval, no exception of a cycle
\* ends the loop: the process ends only on an external interrupt.
C3_LoopEndsOnlyOnInterrupt ==
    (~once /\ pc = "crashed") => exc = "KeyboardInterrupt"

\* ------------------------------------------------------------------------
\* C4
\* ------------------------------------------------------------------------

\* C4 as stated: a cycle of the continuous loop in which a probe failed has
\* exactly one failed-cycle entry in the log when the loop goes to sleep.
C4_Original ==
    (pc = "sleep" /\ FailedProbes # {}) => FailedCycleEntries = 1

\* C4 as amended: a failing command gives one executor error entry and no
\* failed-cycle entry; a cycle has two failed-cycle entries when monitor_once
\* returns False, which only the parsing of a completed command causes, and
\* none otherwise; a failing command never ends the loop, which ends only on
\* an interrupt or when time.sleep rejects the interval.
C4_FailingProbeCycle ==
    /\ pc = "sleep" =>
          /\ ExecutorErrors = Cardinality(FailedProbes)
          /\ ReturnedBoolean
          /\ FailedCycleEntries = (IF ReturnedTrue THEN 0 ELSE 2)
          /\ ReturnedFalse => (Ran(ProbeOrder[next]) /\ ~CommandFailed(ProbeOrder[next]))
    /\ (~once /\ pc = "crashed") => (exc = "KeyboardInterrupt" \/ interval < 0)

C4_Witness ==
    /\ pc = "sleep"
    /\ interval >= 0
    /\ CommandFailed("temp")
    /\ ReturnedTrue

\* ------------------------------------------------------------------------
\* C5
\* ------------------------------------------------------------------------

Ended == pc \in {"exited", "crashed"}

\* steps a single-shot run has left, at most
OnceRank ==
    CASE pc = "main" -> Len(ProbeOrder) + 6
      [] pc = "begin" -> Len(ProbeOrder) + 5
      [] pc = "probe" -> Len(ProbeOrder) + 5 - next
      [] pc \in {"save", "once_except"} -> 3
      [] pc = "thresholds" -> 2
      [] pc = "once_done" -> 1
      [] OTHER -> 0

OnceInvariant ==
    once =>
        /\ pc \notin {"sleep", "exc_handler", "exc_sleep", "ki_handler"}
        /\ pc = "crashed" => exc = "KeyboardInterrupt"
        /\ pc \in {"once_done", "exited"} =>
              /\ ReturnedBoolean
              /\ ReturnedTrue <=> Count("Monitoring cycle failed") = 0
              /\ ReturnedTrue <=> Count("Metrics saved") + Count("Failed to save metrics") = 1
              /\ ReturnedFalse <=> Count("Metrics saved") + Count("Failed to save metrics") = 0
              /\ Count("Starting health check") = 1

\* a step of the single-shot run is possible (RunProbe assigns every
\* variable, so it is enabled whenever the channel has an outcome to give)
OnceCanStep ==
    \/ ENABLED (Main \/ BeginCycle \/ SaveMetrics \/ CheckThresholds
                  \/ OnceExcept \/ ReturnToMain)
    \/ /\ pc = "probe"
       /\ next \in 1..Len(ProbeOrder)
       /\ PossibleOutcomes(host, devs, ProbeOrder[next]) # {}

\* C5: single-shot mode makes one pass without sleeping, returns a boolean
\* (True when the pass reached persistence and completed, False when its
\* except block caught an exception) and always ends: until it has ended a
\* step is always possible, and every step brings the end nearer.
C5_OnceReturnsBooleanAndEnds ==
    /\ []OnceInvariant
    /\ []((once /\ ~Ended) => OnceCanStep)
    /\ [][once => (OnceRank' < OnceRank /\ OnceRank' >= 0)]_vars

C5_Witness == once /\ pc = "exited" /\ ReturnedFalse

\* ------------------------------------------------------------------------
\* C6
\* ------------------------------------------------------------------------

WriteFailed == Count("Failed to save metrics") > 0

\* C6 as stated: a failed write marks the cycle failed.
C6_Original ==
    (WriteFailed /\ pc = "once_done") => ReturnedFalse

\* C6 as amended: a failed write is logged by save_metrics and raises
\* nothing; the cycle is not marked failed: monitor_once goes on to the
\* thresholds and returns True, no failed-cycle entry is logged, and the
\* continuous loop goes to sleep as after any other cycle.
C6_WriteFailureSwallowed ==
    /\ (pc \in AfterSave /\ ReturnedTrue) => (WriteFailed <=> saved.state # "written")
    /\ pc = "thresholds" => (WriteFailed <=> saved.state # "written")
    /\ saved.state = "truncated" => WriteFailed
    /\ pc = "once_except" =>
          (saved = NoFile /\ exc \in {"IndexError", "ValueError", "ZeroDivisionError"})
    /\ WriteFailed =>
          /\ pc # "once_except"
          /\ pc \in {"once_done", "sleep"} => ReturnedTrue
          /\ Count("Monitoring cycle failed") = 0
          /\ pc \in {"sleep", "exc_handler", "exc_sleep", "exited"} =>
                FailedCycleEntries = 0
          /\ pc = "crashed" => (exc = "KeyboardInterrupt" \/ interval < 0)

C6_Witness == pc = "sleep" /\ WriteFailed /\ saved.state = "truncated"

\* ------------------------------------------------------------------------
\* C7
\* ------------------------------------------------------------------------

Warned(msg) == \E i \in DOMAIN log : log[i] = LogEntry("WARNING", msg, "")

HoldsTemperatureAbove70 ==
    /\ "cpu_temperature_c" \in DOMAIN metrics["cpu_metrics"]
    /\ LET t == metrics["cpu_metrics"]["cpu_temperature_c"] IN t.num > 70 * t.den

HoldsMemoryAbove90 ==
    /\ "memory" \in DOMAIN metrics["memory_metrics"]
    /\ LET u == metrics["memory_metrics"]["memory"]["usage_percent"] IN
       u.num > 90 * u.den

\* C7: once thresholds are evaluated, the temperature warning is in the log
\* iff the snapshot holds a temperature above 70, the memory warning iff it
\* holds a usage above 90; no warning is logged before the write, and the
\* written document is the snapshot as assembled.
C7_ThresholdWarnings ==
    /\ (pc \in {"once_done", "sleep"} /\ ReturnedTrue) =>
          /\ Warned("High CPU temperature") <=> HoldsTemperatureAbove70
          /\ Warned("High memory usage") <=> HoldsMemoryAbove90
          /\ Count("High CPU temperature") <= 1
          /\ Count("High memory usage") <= 1
          /\ saved.state = "written" => saved.doc = metrics
    /\ pc \in {"probe", "save", "thresholds", "once_except"} =>
          ~(\E i \in DOMAIN log : log[i].level = "WARNING")

C7_Witness ==
    /\ pc = "once_done"
    /\ Warned("High CPU temperature")
    /\ Warned("High memory usage")
    /\ saved.state = "written"

\* ------------------------------------------------------------------------
\* C8
\* ------------------------------------------------------------------------

\* C8: a command that completes with malformed output costs only its own
\* field: collection is never aborted by the parsing of a completed command.
C8_ParseErrorIsPerProbe ==
    ~(pc = "once_except" /\ Ran(ProbeOrder[next]) /\ chan[ProbeOrder[next]].status = "ok")

\* ------------------------------------------------------------------------
\* C9
\* ------------------------------------------------------------------------

CycleBegun == Count("Starting health check") > 0
PersistenceReached == Count("Metrics saved") + Count("Failed to save metrics") > 0

\* C9 as stated: when the interrupt handler of the continuous loop runs, the
\* cycle in progress has been through persistence or its catch block.
C9_Original ==
    (pc = "ki_handler" /\ CycleBegun) =>
        (PersistenceReached \/ Count("Monitoring cycle failed") > 0)

\* C9 as amended: an interrupt that arrives inside the try block of the loop
\* (in a probe, anywhere else in the cycle, or in the sleep of line 332) is
\* observed at once: nothing more is probed, persisted or logged for the
\* cycle, control goes to the KeyboardInterrupt handler, which logs the stop
\* and returns normally; an interrupt that arrives outside it (before the
\* loop, in the generic handler or its sleep, in the interrupt handler)
\* escapes monitor_continuous.
C9_InterruptObservedAtOnce ==
    [][ /\ (Interrupt /\ ~once /\ pc \in TryBody) =>
              (pc' = "ki_handler" /\ log' = log /\ saved' = saved)
        /\ (Interrupt /\ ~once /\ pc \notin TryBody) => pc' = "crashed"
        /\ (pc = "ki_handler" /\ pc' # "crashed") =>
              /\ pc' = "exited"
              /\ log' = Append(log, LogEntry("INFO", "Monitoring stopped by user", ""))
              /\ saved' = saved
      ]_vars

C9_Witness ==
    /\ pc = "exited"
    /\ ~once
    /\ CycleBegun
    /\ ~PersistenceReached
    /\ Count("Monitoring stopped by user") = 1

\* ------------------------------------------------------------------------
\* C10
\* ------------------------------------------------------------------------

ListProbes == {"failed_services", "dmesg", "journalctl"}

\* C10: a list probe that completes with empty output has its field in the
\* snapshot, as an empty list.
C10_EmptyListPresent ==
    \A p \in ListProbes :
        (Ran(p) /\ chan[p].status = "ok" /\ Strip(chan[p].stdout) = <<>>
           /\ pc \in AfterCollection) =>
        (HasField(metrics, p) /\ \A f \in FieldsOf(p) : metrics[Category(p)][f] = <<>>)

====
